---- MODULE Spec2Model ----
(***************************************************************************)
(* Model of mira_py_devkit/cloud_storager/aws_s3.py: the AmazonS3 wrapper  *)
(* around a boto3 S3 client, and its CloudflareR2 subclass.                *)
(*                                                                         *)
(* Every method is synchronous and runs to completion, so a method call is *)
(* one action.  What a call does to the outside world is recorded as the   *)
(* sequence of library calls it issues (requests.get, upload_file,         *)
(* put_object) together with its outcome (a returned value or a raised     *)
(* exception).  What the outside world answers (the HTTP response, the     *)
(* SDK's success or failure) is an input of the action.                    *)
(***************************************************************************)
EXTENDS Integers, Sequences, FiniteSets, TLC

\* ------------------------------------------------------------------------
\* Bounds of the model
\* ------------------------------------------------------------------------
\* number of wrapper objects that are constructed
MaxInstances == 2
\* length of an HTTP response body
MaxBodyLen == 2

\* ------------------------------------------------------------------------
\* Python values
\* ------------------------------------------------------------------------
\* None / an omitted argument is the empty tuple, a present value x is <<x>>
None == <<>>
Some(x) == <<x>>

\* bool(s) of a str: the empty string is falsy
Truthy(s) == s # ""

\* x in l, for a list l
InList(x, l) == \E n \in DOMAIN l : l[n] = x

\* the outcome of a call: a returned value or a raised exception
Return(v) == [kind |-> "return", value |-> v, exc |-> None]
Raise(e) == [kind |-> "raise", value |-> None, exc |-> Some(e)]
Exception(t, m) == [type |-> t, msg |-> m]

\* the value a parameter takes: the argument, or the default when omitted
ArgOrDefault(arg, default) == IF arg = None THEN default ELSE arg[1]

\* ------------------------------------------------------------------------
\* class AmazonS3
\* ------------------------------------------------------------------------
VALID_ACL ==
  << "private",
     "public-read",
     "public-read-write",
     "authenticated-read",
     "aws-exec-read",
     "bucket-owner-read",
     "bucket-owner-full-control",
     "log-delivery-write" >>

\* boto3.client("s3", aws_access_key_id=, endpoint_url=, aws_secret_access_key=):
\* a new client object (identity id) bound to the credentials and endpoint
boto3_client(id, service, key, endpoint_url, secret) ==
  [ id |-> id,
    service |-> service,
    aws_access_key_id |-> key,
    endpoint_url |-> endpoint_url,
    aws_secret_access_key |-> secret ]

\* AmazonS3.__init__ run on a new object of class cls; id is the identity
\* of the boto3 client object it creates
AmazonS3_init(cls, id, aws_access_key_id, aws_secret_access_key, endpoint_url) ==
  [ cls |-> cls,
    aws_access_key_id |-> aws_access_key_id,
    aws_secret_access_key |-> aws_secret_access_key,
    s3_raw_client |-> boto3_client(id, "s3", aws_access_key_id, endpoint_url,
                                   aws_secret_access_key) ]

\* _check_acl without the "acl and" test: the empty string is rejected too
check_acl_rejects_empty(self, acl) ==
  IF ~InList(acl, VALID_ACL)
    THEN [ self |-> self, calls |-> <<>>,
           outcome |-> Raise(Exception("ValueError", "Invalid ACL: " \o acl \o ".")) ]
    ELSE [ self |-> self, calls |-> <<>>, outcome |-> Return(None) ]

\* AmazonS3._check_acl.  A method yields the object as the call leaves it
\* (no method assigns to an attribute of self), the library calls it made,
\* and its outcome
check_acl(self, acl) ==
  IF Truthy(acl) /\ ~InList(acl, VALID_ACL)
    THEN [ self |-> self, calls |-> <<>>,
           outcome |-> Raise(Exception("ValueError",
             "Invalid ACL: " \o acl \o ". Please check the https://docs.aws.amazon.com/AmazonS3/latest/userguide/acl-overview.html#canned-acl for valid ACLs.")) ]
    ELSE [ self |-> self, calls |-> <<>>, outcome |-> Return(None) ]

\* public_url with the bucket name where the custom domain belongs
public_url_bucket_for_domain(bucket_domain, bucket_name, object_name) ==
  IF Truthy(bucket_domain)
    THEN "https://" \o bucket_name \o "/" \o object_name
    ELSE "https://" \o bucket_name \o ".s3.amazonaws.com/" \o object_name

\* public_url without the fallback to the bucket's default domain
public_url_no_fallback(bucket_domain, bucket_name, object_name) ==
  "https://" \o bucket_domain \o "/" \o object_name

\* the public URL both upload methods build
public_url(bucket_domain, bucket_name, object_name) ==
  IF Truthy(bucket_domain)
    THEN "https://" \o bucket_domain \o "/" \o object_name
    ELSE "https://" \o bucket_name \o ".s3.amazonaws.com/" \o object_name

\* self.s3_raw_client.upload_file(file_path, bucket_name, object_name,
\*                                ExtraArgs={"ACL": acl})
upload_file_call(client, file_path, bucket_name, object_name, acl) ==
  [ api |-> "upload_file",
    client |-> client,
    Filename |-> file_path,
    Bucket |-> bucket_name,
    Key |-> object_name,
    ExtraArgs |-> [ACL |-> acl] ]

\* upload_from_local_file that tries upload_file a second time when it
\* fails, and returns the URL whatever the second attempt does
upload_from_local_file_retry(self, file_path, bucket_name, object_name, aclArg, domainArg, sdk) ==
  LET acl == ArgOrDefault(aclArg, "public-read")
      bucket_domain == ArgOrDefault(domainArg, "")
      call == upload_file_call(self.s3_raw_client, file_path, bucket_name,
                               object_name, acl)
  IN  [ self |-> self,
        calls |-> IF sdk.kind = "raise" THEN <<call, call>> ELSE <<call>>,
        outcome |-> Return(Some(public_url(bucket_domain, bucket_name,
                                           object_name))) ]

\* AmazonS3.upload_from_local_file; sdk is what upload_file does
upload_from_local_file(self, file_path, bucket_name, object_name, aclArg, domainArg, sdk) ==
  LET acl == ArgOrDefault(aclArg, "public-read")
      bucket_domain == ArgOrDefault(domainArg, "")
      call == upload_file_call(self.s3_raw_client, file_path, bucket_name,
                               object_name, acl)
  IN  IF sdk.kind = "raise"
        THEN [ self |-> self, calls |-> <<call>>, outcome |-> sdk ]
        ELSE [ self |-> self, calls |-> <<call>>,
               outcome |-> Return(Some(public_url(bucket_domain, bucket_name,
                                                  object_name))) ]

\* requests.get(url)
get_call(url) == [ api |-> "requests.get", url |-> url ]

\* raise_for_status that lets a 5xx status through
raise_for_status_client_only(response) ==
  IF 400 <= response.status_code /\ response.status_code < 500
    THEN Raise(Exception("HTTPError", "Client Error"))
    ELSE Return(None)

\* response.raise_for_status(): HTTPError for a 4xx or 5xx status
raise_for_status(response) ==
  IF 400 <= response.status_code /\ response.status_code < 500
    THEN Raise(Exception("HTTPError", "Client Error"))
    ELSE IF 500 <= response.status_code /\ response.status_code < 600
      THEN Raise(Exception("HTTPError", "Server Error"))
      ELSE Return(None)

\* a stream the bytes were written to and that was not rewound: its
\* position is at the end
BytesIO_at_end(initial_bytes) ==
  [ buf |-> initial_bytes, pos |-> Len(initial_bytes) ]

\* BytesIO(initial_bytes): a stream over a copy of the bytes, positioned at 0
BytesIO(initial_bytes) == [ buf |-> initial_bytes, pos |-> 0 ]

\* what a reader of the stream gets: the bytes from the position to the end
ReadAll(stream) == SubSeq(stream.buf, stream.pos + 1, Len(stream.buf))

\* self.s3_raw_client.put_object(Bucket=, Key=, Body=, ACL=)
put_object_call(client, bucket_name, object_name, body, acl) ==
  [ api |-> "put_object",
    client |-> client,
    Bucket |-> bucket_name,
    Key |-> object_name,
    Body |-> body,
    ACL |-> acl ]

\* upload_from_url that replaces the object's boto3 client by a new one
upload_from_url_rebinds(self, url, bucket_name, object_name, aclArg, domainArg, http, sdk) ==
  LET acl == ArgOrDefault(aclArg, "public-read")
      bucket_domain == ArgOrDefault(domainArg, "")
      client == [self.s3_raw_client EXCEPT !.id = @ + MaxInstances]
      after == [self EXCEPT !.s3_raw_client = client]
      get == get_call(url)
      put == put_object_call(client, bucket_name, object_name,
                             [buf |-> http.content, pos |-> 0], acl)
  IN  IF http.kind = "raise"
        THEN [ self |-> after, calls |-> <<get>>, outcome |-> Raise(http.exc[1]) ]
        ELSE IF 400 <= http.status_code /\ http.status_code < 600
          THEN [ self |-> after, calls |-> <<get>>,
                 outcome |-> Raise(Exception("HTTPError", "Error")) ]
          ELSE IF sdk.kind = "raise"
            THEN [ self |-> after, calls |-> <<get, put>>, outcome |-> sdk ]
            ELSE [ self |-> after, calls |-> <<get, put>>,
                   outcome |-> Return(Some(public_url(bucket_domain,
                                                      bucket_name,
                                                      object_name))) ]

\* AmazonS3.upload_from_url; http is what requests.get does, sdk is what
\* put_object does
upload_from_url(self, url, bucket_name, object_name, aclArg, domainArg, http, sdk) ==
  LET acl == ArgOrDefault(aclArg, "public-read")
      bucket_domain == ArgOrDefault(domainArg, "")
      get == get_call(url)
      put == put_object_call(self.s3_raw_client, bucket_name, object_name,
                             BytesIO(http.content), acl)
  IN  IF http.kind = "raise"
        THEN [ self |-> self, calls |-> <<get>>, outcome |-> Raise(http.exc[1]) ]
        ELSE IF raise_for_status(http).kind = "raise"
          THEN [ self |-> self, calls |-> <<get>>, outcome |-> raise_for_status(http) ]
          ELSE IF sdk.kind = "raise"
            THEN [ self |-> self, calls |-> <<get, put>>, outcome |-> sdk ]
            ELSE [ self |-> self, calls |-> <<get, put>>,
                   outcome |-> Return(Some(public_url(bucket_domain,
                                                      bucket_name,
                                                      object_name))) ]

\* ------------------------------------------------------------------------
\* class CloudflareR2(AmazonS3) and attribute lookup
\* ------------------------------------------------------------------------
\* CloudflareR2.__init__ handing the two credentials to super().__init__
\* in the wrong order
CloudflareR2_init_swapped(cls, id, aws_access_key_id, aws_secret_access_key, endpoint_url) ==
  AmazonS3_init(cls, id, aws_secret_access_key, aws_access_key_id, endpoint_url)

\* CloudflareR2.__init__: super().__init__(key, secret, endpoint_url)
CloudflareR2_init(cls, id, aws_access_key_id, aws_secret_access_key, endpoint_url) ==
  AmazonS3_init(cls, id, aws_access_key_id, aws_secret_access_key, endpoint_url)

\* the names each class body defines
ClassDict(cls) ==
  IF cls = "AmazonS3"
    THEN {"VALID_ACL", "__init__", "_check_acl", "upload_from_local_file",
          "upload_from_url"}
    ELSE IF cls = "CloudflareR2" THEN {"__init__"} ELSE {}

\* the method resolution order of each class
MRO(cls) ==
  IF cls = "CloudflareR2" THEN <<"CloudflareR2", "AmazonS3">> ELSE <<"AmazonS3">>

\* the class whose definition of name an object of class cls uses
Resolve(cls, name) ==
  LET hits == {n \in DOMAIN MRO(cls) : name \in ClassDict(MRO(cls)[n])}
  IN  MRO(cls)[CHOOSE n \in hits : \A m \in hits : n <= m]

\* both __init__ signatures with endpoint_url=None
InitSignature_optional_endpoint(definer) ==
  [required |-> 2, endpoint_default |-> Some(None)]

\* the parameters of __init__ after self: how many are required, and the
\* default of endpoint_url where it has one
InitSignature(definer) ==
  IF definer = "AmazonS3"
    THEN [required |-> 2, endpoint_default |-> Some(None)]
    ELSE [required |-> 3, endpoint_default |-> None]

\* cls(*args): bind the arguments to the parameters of the resolved
\* __init__, fail with TypeError when a required one is missing, otherwise
\* run it on a new object
New(cls, id, args) ==
  LET definer == Resolve(cls, "__init__")
      sig == InitSignature(definer)
      endpoint_url == IF Len(args) >= 3 THEN args[3] ELSE sig.endpoint_default[1]
  IN  IF Len(args) < sig.required
        THEN [ created |-> <<>>,
               outcome |-> Raise(Exception("TypeError",
                 "__init__() missing 1 required positional argument: 'endpoint_url'")) ]
        ELSE [ created |-> << IF definer = "CloudflareR2"
                                THEN CloudflareR2_init(cls, id, args[1], args[2], endpoint_url)
                                ELSE AmazonS3_init(cls, id, args[1], args[2], endpoint_url) >>,
               outcome |-> Return(None) ]

\* self._check_acl(acl), self.upload_from_local_file(...) and
\* self.upload_from_url(...) on an object of either class: both classes
\* resolve the three names to the definitions in AmazonS3
Invoke(self, op, a, env) ==
  IF Resolve(self.cls, op) # "AmazonS3"
    THEN [ self |-> self, calls |-> <<>>,
           outcome |-> Raise(Exception("AttributeError", op)) ]
    ELSE IF op = "_check_acl"
      THEN check_acl(self, a.acl)
      ELSE IF op = "upload_from_local_file"
        THEN upload_from_local_file(self, a.src, a.bucket_name, a.object_name,
                                    a.acl, a.bucket_domain, env.sdk)
        ELSE upload_from_url(self, a.src, a.bucket_name, a.object_name,
                             a.acl, a.bucket_domain, env.http, env.sdk)

\* ------------------------------------------------------------------------
\* Inputs
\* ------------------------------------------------------------------------
Classes == {"AmazonS3", "CloudflareR2"}
AccessKeys == {"AKIAEXAMPLE1", "AKIAEXAMPLE2"}
Secrets == {"wJalrXUtnFEMI"}
Endpoints == {"https://acct.r2.cloudflarestorage.com"}
\* positional arguments of a constructor call: with or without endpoint_url
CtorArgs ==
  {<<k, s>> : k \in AccessKeys, s \in Secrets}
    \cup {<<k, s, Some(e)>> : k \in AccessKeys, s \in Secrets, e \in Endpoints}

Buckets == {"mybucket", "assets"}
Keys == {"images/x.png", "a/b.txt"}
Paths == {"/tmp/x.png"}
Urls == {"http://example.com/x.png"}
\* ACL values for _check_acl: the eight valid ones, the empty string, a
\* valid one in another case, and an unknown one
AclValues ==
  {VALID_ACL[n] : n \in DOMAIN VALID_ACL} \cup {"", "Public-Read", "bogus"}
\* the acl argument of an upload: omitted, or given
AclArgs == {None, Some(""), Some("private"), Some("bogus")}
\* the bucket_domain argument of an upload: omitted, or given
DomainArgs == {None, Some(""), Some("cdn.example.com")}

Bytes == {0, 255}
RECURSIVE SeqsUpTo(_, _)
SeqsUpTo(S, n) ==
  IF n = 0 THEN {<<>>}
  ELSE LET shorter == SeqsUpTo(S, n - 1)
       IN  shorter \cup {Append(q, x) : q \in {r \in shorter : Len(r) = n - 1}, x \in S}
Bodies == SeqsUpTo(Bytes, MaxBodyLen)

\* what requests.get can do: return a response, or raise
Response(status_code, content) ==
  [ kind |-> "response", status_code |-> status_code, content |-> content,
    exc |-> None ]
ErrorBody == IF MaxBodyLen >= 1 THEN <<255>> ELSE <<>>
HttpOutcomes ==
  {Response(200, b) : b \in Bodies}
    \cup {Response(s, ErrorBody) : s \in {204, 300, 404, 503}}
    \cup {[ kind |-> "raise", status_code |-> 0, content |-> <<>>,
            exc |-> Some(Exception("ConnectionError", "Connection refused")) ]}

\* what upload_file and put_object can do: return None, or raise
SdkOutcomes ==
  {Return(None), Raise(Exception("ClientError", "AccessDenied"))}

UploadArgs(srcs) ==
  [ src : srcs, bucket_name : Buckets, object_name : Keys, acl : AclArgs,
    bucket_domain : DomainArgs ]

\* ------------------------------------------------------------------------
\* State
\* ------------------------------------------------------------------------
VARIABLES
  instances,  \* the wrapper objects constructed so far, in order of creation
  last,       \* the most recent call: operation, arguments, library calls, outcome
  twin        \* the same call made on a second object (paired runs only)

vars == <<instances, last, twin>>

NoCall ==
  [ op |-> "none", self |-> 0, cls |-> "", args |-> <<>>, env |-> <<>>,
    calls |-> <<>>, outcome |-> Return(None) ]

CallRecord(op, i, cls, a, env, r) ==
  [ op |-> op, self |-> i, cls |-> cls, args |-> a, env |-> env,
    calls |-> r.calls, outcome |-> r.outcome ]

Init ==
  /\ instances = <<>>
  /\ last = NoCall
  /\ twin = NoCall

\* the caller is between two calls: it holds no outcome it has yet to take
Idle == last = NoCall /\ twin = NoCall

\* cls(*args)
Construct ==
  /\ Idle
  /\ Len(instances) < MaxInstances
  /\ \E cls \in Classes, args \in CtorArgs :
       LET id == Len(instances) + 1
           r == New(cls, id, args)
       IN  /\ instances' = instances \o r.created
           /\ last' = CallRecord("__init__", IF r.created = <<>> THEN 0 ELSE id,
                                 cls, args, <<>>,
                                 [calls |-> <<>>, outcome |-> r.outcome])
           /\ twin' = NoCall

\* instances[i].op(...) with arguments a, the outside world answering env
Call(op, i, a, env) ==
  LET r == Invoke(instances[i], op, a, env)
  IN  /\ instances' = [instances EXCEPT ![i] = r.self]
      /\ last' = CallRecord(op, i, instances[i].cls, a, env, r)
      /\ twin' = NoCall

\* instances[i]._check_acl(acl)
CheckAcl ==
  /\ Idle
  /\ \E i \in DOMAIN instances, acl \in AclValues :
       Call("_check_acl", i, [acl |-> acl], <<>>)

\* instances[i].upload_from_local_file(file_path, bucket_name, object_name
\*                                     [, acl] [, bucket_domain])
UploadFromLocalFile ==
  /\ Idle
  /\ \E i \in DOMAIN instances, a \in UploadArgs(Paths), sdk \in SdkOutcomes :
       Call("upload_from_local_file", i, a, [sdk |-> sdk])

\* instances[i].upload_from_url(url, bucket_name, object_name
\*                              [, acl] [, bucket_domain])
UploadFromUrl ==
  /\ Idle
  /\ \E i \in DOMAIN instances, a \in UploadArgs(Urls),
        http \in HttpOutcomes, sdk \in SdkOutcomes :
       Call("upload_from_url", i, a, [http |-> http, sdk |-> sdk])

\* the caller takes the outcome (the returned value or the exception) and
\* goes on to its next call
TakeOutcome ==
  /\ ~Idle
  /\ last' = NoCall
  /\ twin' = NoCall
  /\ UNCHANGED instances

Next ==
  \/ Construct
  \/ CheckAcl
  \/ UploadFromLocalFile
  \/ UploadFromUrl
  \/ TakeOutcome

Spec == Init /\ [][Next]_vars

\* ------------------------------------------------------------------------
\* Paired runs: an AmazonS3 object and a CloudflareR2 object are constructed
\* with the same credentials and the same explicit endpoint, and every call
\* is made on both with the same arguments and the same answers from the
\* outside world
\* ------------------------------------------------------------------------
PairConstruct ==
  /\ Idle
  /\ Len(instances) + 2 <= MaxInstances
  /\ \E k \in AccessKeys, s \in Secrets, e \in Endpoints :
       LET args == <<k, s, Some(e)>>
           id == Len(instances) + 1
           r1 == New("AmazonS3", id, args)
           r2 == New("CloudflareR2", id + 1, args)
       IN  /\ instances' = instances \o r1.created \o r2.created
           /\ last' = CallRecord("__init__", id, "AmazonS3", args, <<>>,
                                 [calls |-> <<>>, outcome |-> r1.outcome])
           /\ twin' = CallRecord("__init__", id + 1, "CloudflareR2", args, <<>>,
                                 [calls |-> <<>>, outcome |-> r2.outcome])

\* a pair: PairConstruct creates the objects two by two
IsPair(i, j) ==
  i \in DOMAIN instances /\ j = i + 1 /\ j \in DOMAIN instances /\ i % 2 = 1

PairCall(op, i, a, env) ==
  LET j == i + 1
      r1 == Invoke(instances[i], op, a, env)
      r2 == Invoke(instances[j], op, a, env)
  IN  /\ instances' = [instances EXCEPT ![i] = r1.self, ![j] = r2.self]
      /\ last' = CallRecord(op, i, instances[i].cls, a, env, r1)
      /\ twin' = CallRecord(op, j, instances[j].cls, a, env, r2)

\* the first objects of the pairs
PairFirsts == {i \in DOMAIN instances : IsPair(i, i + 1)}

PairCheckAcl ==
  /\ Idle
  /\ \E i \in PairFirsts, acl \in AclValues :
       PairCall("_check_acl", i, [acl |-> acl], <<>>)

PairUploadFromLocalFile ==
  /\ Idle
  /\ \E i \in PairFirsts, a \in UploadArgs(Paths), sdk \in SdkOutcomes :
       PairCall("upload_from_local_file", i, a, [sdk |-> sdk])

PairUploadFromUrl ==
  /\ Idle
  /\ \E i \in PairFirsts, a \in UploadArgs(Urls),
        http \in HttpOutcomes, sdk \in SdkOutcomes :
       PairCall("upload_from_url", i, a, [http |-> http, sdk |-> sdk])

NextPair ==
  \/ PairConstruct
  \/ PairCheckAcl
  \/ PairUploadFromLocalFile
  \/ PairUploadFromUrl
  \/ TakeOutcome

SpecPair == Init /\ [][NextPair]_vars

\* ------------------------------------------------------------------------
\* Properties
\* ------------------------------------------------------------------------
\* the eight canned ACLs, as the documentation lists them
FixedAcls ==
  { "private", "public-read", "public-read-write", "authenticated-read",
    "aws-exec-read", "bucket-owner-read", "bucket-owner-full-control",
    "log-delivery-write" }

IsUpload == last.op \in {"upload_from_local_file", "upload_from_url"}
Returned == last.outcome.kind = "return"
Raised == last.outcome.kind = "raise"
\* the positions of the calls to api among the library calls of the last call
CallsTo(api) == {n \in DOMAIN last.calls : last.calls[n].api = api}
PutIssued == CallsTo("put_object") # {}
\* the ACL a transfer call carries
SdkAcl(c) == IF c.api = "upload_file" THEN c.ExtraArgs.ACL ELSE c.ACL

\* C1: for every non-empty custom domain D, key K and bucket B, an upload
\* (from a local file or from a URL) that completes returns exactly
\* "https://D/K", whatever B is.
C1_CustomDomainUrl ==
  (IsUpload /\ Returned /\ last.args.bucket_domain # None
     /\ last.args.bucket_domain[1] # "")
    => last.outcome.value
         = Some("https://" \o last.args.bucket_domain[1] \o "/" \o last.args.object_name)

C1_Witness ==
  /\ last.op = "upload_from_url"
  /\ Returned
  /\ last.args.bucket_name = "assets"
  /\ last.args.bucket_domain = Some("cdn.example.com")
  /\ last.outcome.value = Some("https://cdn.example.com/images/x.png")

\* C2: for every bucket B and key K, an upload that completes with the
\* custom domain empty or omitted returns exactly
\* "https://B.s3.amazonaws.com/K".
C2_DefaultDomainUrl ==
  (IsUpload /\ Returned
     /\ (last.args.bucket_domain = None \/ last.args.bucket_domain = Some("")))
    => last.outcome.value
         = Some("https://" \o last.args.bucket_name \o ".s3.amazonaws.com/"
                  \o last.args.object_name)

C2_Witness ==
  /\ last.op = "upload_from_local_file"
  /\ Returned
  /\ last.args.acl = None
  /\ last.args.bucket_domain = None
  /\ last.outcome.value = Some("https://mybucket.s3.amazonaws.com/images/x.png")

\* the GET failed, reading "failure status" as any status outside 2xx
GetFailedNon2xx ==
  \/ last.env.http.kind = "raise"
  \/ ~(200 <= last.env.http.status_code /\ last.env.http.status_code < 300)

\* the GET failed, reading "failure status" as a 4xx or 5xx status
GetFailed4xx5xx ==
  \/ last.env.http.kind = "raise"
  \/ (400 <= last.env.http.status_code /\ last.env.http.status_code < 600)

\* C3 as stated, a failure status being any non-2xx status: in
\* upload_from_url a GET that fails (non-2xx status or network error) ends
\* the call in an error with no URL and no put_object; put_object is only
\* issued after a GET that succeeded.
C3_FetchFailureNon2xx ==
  last.op = "upload_from_url" =>
    /\ GetFailedNon2xx => (Raised /\ last.outcome.value = None /\ ~PutIssued)
    /\ PutIssued => (~GetFailedNon2xx /\ \A n \in CallsTo("put_object") :
                        \E m \in CallsTo("requests.get") : m < n)

\* C3 amended: in upload_from_url a GET that raises a network error or
\* yields a 4xx or 5xx status ends the call in that error with no URL and
\* no put_object; put_object is only issued after a GET of the same call
\* that returned a status outside 4xx and 5xx.
C3_FetchFailure4xx5xx ==
  last.op = "upload_from_url" =>
    /\ GetFailed4xx5xx => (Raised /\ last.outcome.value = None /\ ~PutIssued)
    /\ PutIssued => (~GetFailed4xx5xx /\ \A n \in CallsTo("put_object") :
                        \E m \in CallsTo("requests.get") : m < n)

C3_Witness ==
  /\ last.op = "upload_from_url"
  /\ last.env.http.kind = "response"
  /\ last.env.http.status_code = 503
  /\ last.env.sdk.kind = "return"
  /\ Raised
  /\ last.calls = <<get_call(last.args.src)>>

\* C4: in upload_from_url, after a successful fetch, the bytes handed to
\* put_object are exactly the response body (same length, same bytes, same
\* order), and the call carries the caller's bucket, key and ACL.
C4_BodyPassedThrough ==
  last.op = "upload_from_url" =>
    \A n \in CallsTo("put_object") :
      /\ ReadAll(last.calls[n].Body) = last.env.http.content
      /\ Len(ReadAll(last.calls[n].Body)) = Len(last.env.http.content)
      /\ last.calls[n].Bucket = last.args.bucket_name
      /\ last.calls[n].Key = last.args.object_name
      /\ last.calls[n].ACL = ArgOrDefault(last.args.acl, "public-read")

C4_Witness ==
  /\ last.op = "upload_from_url"
  /\ last.env.http.content = <<0, 255>>
  /\ last.args.acl = Some("private")
  /\ PutIssued

\* C5: _check_acl fails with a validation error naming the value if and
\* only if the value is non-empty and not one of the eight canned ACLs
\* (compared case-sensitively); otherwise it returns None with no effect.
C5_CheckAcl ==
  last.op = "_check_acl" =>
    /\ Raised <=> (last.args.acl # "" /\ last.args.acl \notin FixedAcls)
    /\ Raised =>
         /\ last.outcome.exc[1].type = "ValueError"
         /\ SubSeq(last.outcome.exc[1].msg, 1, 13 + Len(last.args.acl))
              = "Invalid ACL: " \o last.args.acl
    /\ Returned => last.outcome.value = None
    /\ last.calls = <<>>

C5_Witness ==
  /\ last.op = "_check_acl"
  /\ last.args.acl = "Public-Read"
  /\ Raised

\* C6: in every upload, the ACL that reaches the SDK transfer call
\* (upload_file or put_object) is one of the eight canned ACLs.
C6_AclReachingSdkIsValid ==
  IsUpload =>
    \A n \in CallsTo("upload_file") \cup CallsTo("put_object") :
      SdkAcl(last.calls[n]) \in FixedAcls

\* C7: no retries: upload_from_local_file issues exactly one upload_file
\* call; upload_from_url issues exactly one GET and at most one put_object;
\* when the transfer call fails the call ends in that same error and
\* returns no URL.
C7_NoRetry ==
  /\ last.op = "upload_from_local_file" =>
       /\ Len(last.calls) = 1
       /\ Cardinality(CallsTo("upload_file")) = 1
       /\ last.env.sdk.kind = "raise" =>
            (last.outcome = last.env.sdk /\ last.outcome.value = None)
  /\ last.op = "upload_from_url" =>
       /\ Cardinality(CallsTo("requests.get")) = 1
       /\ Cardinality(CallsTo("put_object")) <= 1
       /\ Len(last.calls) = Cardinality(CallsTo("requests.get"))
                              + Cardinality(CallsTo("put_object"))
       /\ (PutIssued /\ last.env.sdk.kind = "raise") =>
            (last.outcome = last.env.sdk /\ last.outcome.value = None)

C7_Witness ==
  /\ last.op = "upload_from_local_file"
  /\ last.env.sdk.kind = "raise"
  /\ Raised
  /\ Len(last.calls) = 1

\* C8: CloudflareR2 constructed without an endpoint argument fails and
\* yields no object; AmazonS3 constructed without one succeeds, its boto3
\* client bound to endpoint_url None.
C8_EndpointRequired ==
  [][(last'.op = "__init__" /\ Len(last'.args) = 2) =>
       IF last'.cls = "CloudflareR2"
         THEN /\ last'.outcome.kind = "raise"
              /\ last'.outcome.exc[1].type = "TypeError"
              /\ last'.self = 0
              /\ instances' = instances
         ELSE /\ last'.outcome.kind = "return"
              /\ Len(instances') = Len(instances) + 1
              /\ last'.self = Len(instances')
              /\ SubSeq(instances', 1, Len(instances)) = instances
              /\ instances'[last'.self].cls = "AmazonS3"
              /\ instances'[last'.self].s3_raw_client.endpoint_url = None]_vars

C8_Witness ==
  /\ last.op = "__init__"
  /\ last.cls = "CloudflareR2"
  /\ Len(last.args) = 2
  /\ Raised
  /\ \E i \in DOMAIN instances :
       instances[i].cls = "AmazonS3" /\ instances[i].s3_raw_client.endpoint_url = None

\* a library call without the identity of the client object it goes through:
\* what is left is the API, its parameters, and the credentials and endpoint
\* the client is bound to
CallParams(c) ==
  IF c.api = "requests.get" THEN c ELSE [c EXCEPT !.client.id = 0]

\* C9: an AmazonS3 and a CloudflareR2 object constructed with the same
\* credentials and the same explicit endpoint, given the same call with the
\* same answers from the SDK and the HTTP server, issue the same library
\* calls with the same parameters and end in the same outcome.
C9_SameBehaviour ==
  twin.op # "none" =>
    /\ last.cls = "AmazonS3"
    /\ twin.cls = "CloudflareR2"
    /\ twin.op = last.op
    /\ Len(twin.calls) = Len(last.calls)
    /\ \A n \in DOMAIN last.calls :
         CallParams(twin.calls[n]) = CallParams(last.calls[n])
    /\ twin.outcome = last.outcome

C9_Witness ==
  /\ twin.op = "upload_from_url"
  /\ twin.cls = "CloudflareR2"
  /\ twin.outcome.kind = "return"
  /\ Len(twin.calls) = 2

\* C10: no call changes an object that exists: its access key id, secret
\* access key and boto3 client stay as the constructor set them, whether
\* the call succeeds or fails, and no two objects share a boto3 client.
C10_CredentialsImmutable ==
  /\ [](\A i \in DOMAIN instances : \A j \in DOMAIN instances :
          i # j => instances[i].s3_raw_client.id # instances[j].s3_raw_client.id)
  /\ [][\A i \in DOMAIN instances :
          i \in DOMAIN instances' /\ instances'[i] = instances[i]]_vars

C10_Witness ==
  /\ Len(instances) = 2
  /\ instances[1].aws_access_key_id # instances[2].aws_access_key_id
  /\ last.op = "upload_from_url"
  /\ last.self = 2
  /\ Raised
  /\ PutIssued

====
